---- MODULE Spec2Model ----
(***************************************************************************)
(* Model of the SageMaker pipeline custom-resource handler                 *)
(* (src/resources/lambda/pipeline_manager/index.py).                       *)
(*                                                                         *)
(* The pipeline definition is a JSON tree.  Tree nodes are tagged records: *)
(*   [t |-> "s", s |-> str]      a JSON string                             *)
(*   [t |-> "n", n |-> int]      a JSON number                             *)
(*   [t |-> "o", kv |-> pairs]   a JSON object, pairs in insertion order   *)
(*   [t |-> "a", items |-> seq]  a JSON array                              *)
(* Strings the code takes apart (the prefixes given to rstrip, the dotted  *)
(* paths of the "Get" references) are sequences of pieces in the model and *)
(* are joined when the string is built.                                    *)
(***************************************************************************)
EXTENDS Integers, Sequences, FiniteSets, TLC

\* ------------------------------------------------------------------------
\* State
\* ------------------------------------------------------------------------

VARIABLES
    pipelines,        \* the service: pipeline name -> Absent or Present(..)
    before,           \* the service state when the last invocation began
    request,          \* the request of the last invocation
    calls,            \* the service calls the last invocation made
    definition_text,  \* the definition text the last invocation serialized
    result,           \* what the last invocation returned
    redelivered       \* history: the last invocation was a re-delivery of a
                      \* Create/Update whose mutating call had taken effect

vars == <<pipelines, before, request, calls, definition_text, result, redelivered>>

\* ------------------------------------------------------------------------
\* Bounds of the model
\* ------------------------------------------------------------------------

\* prefixes given in a request end in 0..MaxSlashes "/" characters
MaxSlashes == 1

\* ------------------------------------------------------------------------
\* Strings
\* ------------------------------------------------------------------------

RECURSIVE Join(_)
\* the string made of the pieces of a sequence (str.join / f-string)
Join(parts) ==
    IF parts = <<>> THEN "" ELSE Head(parts) \o Join(Tail(parts))

RECURSIVE JoinWith(_, _)
\* sep.join(parts)
JoinWith(parts, sep) ==
    IF parts = <<>> THEN ""
    ELSE IF Len(parts) = 1 THEN parts[1]
    ELSE parts[1] \o sep \o JoinWith(Tail(parts), sep)

RECURSIVE rstrip(_, _)
\* str.rstrip(ch): drop every trailing ch of a string given as its characters
rstrip(chars, ch) ==
    IF chars # <<>> /\ chars[Len(chars)] = ch
    THEN rstrip(SubSeq(chars, 1, Len(chars) - 1), ch)
    ELSE chars

\* ------------------------------------------------------------------------
\* JSON tree
\* ------------------------------------------------------------------------

Str(s) == [t |-> "s", s |-> s]
Num(n) == [t |-> "n", n |-> n]
Obj(kv) == [t |-> "o", kv |-> kv]
Arr(items) == [t |-> "a", items |-> items]

\* {"Get": "<path>"}; the path is kept as its dot-separated segments
Get(path) == Obj(<< <<"Get", [t |-> "p", p |-> path]>> >>)

\* ------------------------------------------------------------------------
\* _build_definition
\* ------------------------------------------------------------------------

raw_uri(cfg) ==
    "s3://" \o cfg.bucketName \o "/" \o Join(rstrip(cfg.rawPrefix, "/")) \o "/data.csv"

processed_prefix(cfg) ==
    "s3://" \o cfg.bucketName \o "/" \o Join(rstrip(cfg.processedPrefix, "/")) \o "/"

model_prefix(cfg) ==
    "s3://" \o cfg.bucketName \o "/" \o Join(rstrip(cfg.modelPrefix, "/")) \o "/"

code_s3(cfg) ==
    "s3://" \o cfg.bucketName \o "/" \o Join(rstrip(cfg.codePrefix, "/")) \o "/"

Parameters(cfg) ==
    Arr(<<
        Obj(<< <<"Name", Str("InputDataUri")>>, <<"DefaultValue", Str(raw_uri(cfg))>> >>),
        Obj(<< <<"Name", Str("ProcessedPrefix")>>, <<"DefaultValue", Str(processed_prefix(cfg))>> >>),
        Obj(<< <<"Name", Str("ModelPrefix")>>, <<"DefaultValue", Str(model_prefix(cfg))>> >>),
        Obj(<< <<"Name", Str("InstanceType")>>, <<"DefaultValue", Str(cfg.instanceType)>> >>)
    >>)

\* mutant: the trial name counts the pipelines the service holds
PipelineExperimentConfig_counting(cfg) ==
    Obj(<< <<"ExperimentName", Str(cfg.pipelineName)>>,
           <<"TrialName", Str("trial-" \o ToString(
                 1 + Cardinality({n \in DOMAIN pipelines : pipelines[n].exists})))>> >>)

PipelineExperimentConfig(cfg) ==
    Obj(<< <<"ExperimentName", Str(cfg.pipelineName)>>, <<"TrialName", Str("trial-1")>> >>)

ProcessingInput(name, uri, localPath) ==
    Obj(<<
        <<"InputName", Str(name)>>,
        <<"S3Input", Obj(<<
            <<"S3Uri", uri>>,
            <<"LocalPath", Str(localPath)>>,
            <<"S3DataType", Str("S3Prefix")>>,
            <<"S3InputMode", Str("File")>>
        >>)>>
    >>)

ProcessingOutput(name, localPath) ==
    Obj(<<
        <<"OutputName", Str(name)>>,
        <<"S3Output", Obj(<<
            <<"S3Uri", Get(<<"Parameters", "ProcessedPrefix">>)>>,
            <<"LocalPath", Str(localPath)>>,
            <<"S3UploadMode", Str("EndOfJob")>>
        >>)>>
    >>)

PreprocessStep(cfg) ==
    Obj(<<
        <<"Name", Str("Preprocess")>>,
        <<"Type", Str("Processing")>>,
        <<"Arguments", Obj(<<
            <<"ProcessingResources", Obj(<<
                <<"ClusterConfig", Obj(<<
                    <<"InstanceCount", Num(1)>>,
                    <<"InstanceType", Str("ml.m5.large")>>,
                    <<"VolumeSizeInGB", Num(30)>>
                >>)>>
            >>)>>,
            <<"AppSpecification", Obj(<<
                <<"ImageUri", Str(cfg.processingImageUri)>>,
                <<"ContainerEntrypoint", Arr(<<
                    Str("python"),
                    Str("/opt/ml/processing/input/code/preprocessing.py")
                >>)>>
            >>)>>,
            <<"RoleArn", Str(cfg.jobRoleArn)>>,
            <<"ProcessingInputs", Arr(<<
                ProcessingInput("code", Str(code_s3(cfg)), "/opt/ml/processing/input/code"),
                ProcessingInput("raw", Get(<<"Parameters", "InputDataUri">>),
                                "/opt/ml/processing/input/raw")
            >>)>>,
            <<"ProcessingOutputConfig", Obj(<<
                <<"Outputs", Arr(<<
                    ProcessingOutput("train", "/opt/ml/processing/output/train"),
                    ProcessingOutput("test", "/opt/ml/processing/output/test")
                >>)>>
            >>)>>
        >>)>>
    >>)

Channel(cfg, name) ==
    Obj(<<
        <<"ChannelName", Str(name)>>,
        <<"DataSource", Obj(<<
            <<"S3DataSource", Obj(<<
                <<"S3DataType", Str("S3Prefix")>>,
                <<"S3Uri", Str("s3://" \o cfg.bucketName \o "/"
                               \o Join(rstrip(cfg.processedPrefix, "/"))
                               \o "/" \o name \o "/")>>,
                <<"S3DataDistributionType", Str("FullyReplicated")>>
            >>)>>
        >>)>>,
        <<"ContentType", Str("text/csv")>>
    >>)

TrainStep(cfg) ==
    Obj(<<
        <<"Name", Str("Train")>>,
        <<"Type", Str("Training")>>,
        <<"Arguments", Obj(<<
            <<"AlgorithmSpecification", Obj(<<
                <<"TrainingImage", Str(cfg.trainingImageUri)>>,
                <<"TrainingInputMode", Str("File")>>
            >>)>>,
            <<"InputDataConfig", Arr(<< Channel(cfg, "train"), Channel(cfg, "test") >>)>>,
            <<"OutputDataConfig", Obj(<<
                <<"S3OutputPath", Get(<<"Parameters", "ModelPrefix">>)>>
            >>)>>,
            <<"ResourceConfig", Obj(<<
                <<"InstanceCount", Num(1)>>,
                <<"InstanceType", Get(<<"Parameters", "InstanceType">>)>>,
                <<"VolumeSizeInGB", Num(50)>>
            >>)>>,
            <<"RoleArn", Str(cfg.jobRoleArn)>>,
            <<"StoppingCondition", Obj(<< <<"MaxRuntimeInSeconds", Num(3600)>> >>)>>
        >>)>>
    >>)

CreateModelStep(cfg) ==
    Obj(<<
        <<"Name", Str("CreateModel")>>,
        <<"Type", Str("Model")>>,
        <<"Arguments", Obj(<<
            <<"ExecutionRoleArn", Str(cfg.jobRoleArn)>>,
            <<"PrimaryContainer", Obj(<<
                <<"Image", Str(cfg.inferenceImageUri)>>,
                <<"ModelDataUrl",
                  Get(<<"Steps", "Train", "ModelArtifacts", "S3ModelArtifacts">>)>>,
                <<"Environment", Obj(<<>>)>>
            >>)>>
        >>)>>
    >>)

CreateEndpointConfigStep(cfg) ==
    Obj(<<
        <<"Name", Str("CreateEndpointConfig")>>,
        <<"Type", Str("EndpointConfig")>>,
        <<"Arguments", Obj(<<
            <<"ProductionVariants", Arr(<<
                Obj(<<
                    <<"ModelName", Get(<<"Steps", "CreateModel", "ModelName">>)>>,
                    <<"InitialInstanceCount", Num(1)>>,
                    <<"InstanceType", Get(<<"Parameters", "InstanceType">>)>>,
                    <<"VariantName", Str("AllTraffic")>>
                >>)
            >>)>>
        >>)>>
    >>)

CreateEndpointStep(cfg) ==
    Obj(<<
        <<"Name", Str("CreateEndpoint")>>,
        <<"Type", Str("Endpoint")>>,
        <<"Arguments", Obj(<<
            <<"EndpointConfigName",
              Get(<<"Steps", "CreateEndpointConfig", "EndpointConfigName">>)>>,
            <<"EndpointName", Str(cfg.endpointName)>>
        >>)>>
    >>)

Definition(cfg, steps) ==
    Obj(<<
        <<"Version", Str("2020-12-01")>>,
        <<"Parameters", Parameters(cfg)>>,
        <<"PipelineExperimentConfig", PipelineExperimentConfig(cfg)>>,
        <<"Steps", Arr(steps)>>
    >>)

\* mutant: the endpoint configuration is declared before the model it names
_build_definition_misordered(cfg) ==
    Definition(cfg, <<
        PreprocessStep(cfg),
        TrainStep(cfg),
        CreateEndpointConfigStep(cfg),
        CreateModelStep(cfg),
        CreateEndpointStep(cfg)
    >>)

_build_definition(cfg) ==
    Definition(cfg, <<
        PreprocessStep(cfg),
        TrainStep(cfg),
        CreateModelStep(cfg),
        CreateEndpointConfigStep(cfg),
        CreateEndpointStep(cfg)
    >>)

\* ------------------------------------------------------------------------
\* json.dumps(obj, separators=(",", ":"), sort_keys=True)
\* ------------------------------------------------------------------------

\* every key of the definition, in the order Python's str comparison puts them
KeyOrder ==
    << "AlgorithmSpecification",
       "AppSpecification",
       "Arguments",
       "ChannelName",
       "ClusterConfig",
       "ContainerEntrypoint",
       "ContentType",
       "DataSource",
       "DefaultValue",
       "EndpointConfigName",
       "EndpointName",
       "Environment",
       "ExecutionRoleArn",
       "ExperimentName",
       "Get",
       "Image",
       "ImageUri",
       "InitialInstanceCount",
       "InputDataConfig",
       "InputName",
       "InstanceCount",
       "InstanceType",
       "LocalPath",
       "MaxRuntimeInSeconds",
       "ModelDataUrl",
       "ModelName",
       "Name",
       "OutputDataConfig",
       "OutputName",
       "Outputs",
       "Parameters",
       "PipelineExperimentConfig",
       "PrimaryContainer",
       "ProcessingInputs",
       "ProcessingOutputConfig",
       "ProcessingResources",
       "ProductionVariants",
       "ResourceConfig",
       "RoleArn",
       "S3DataDistributionType",
       "S3DataSource",
       "S3DataType",
       "S3Input",
       "S3InputMode",
       "S3Output",
       "S3OutputPath",
       "S3UploadMode",
       "S3Uri",
       "Steps",
       "StoppingCondition",
       "TrainingImage",
       "TrainingInputMode",
       "TrialName",
       "Type",
       "VariantName",
       "Version",
       "VolumeSizeInGB" >>

\* the pairs of an object sorted by key
SortedItems(kv) ==
    LET keys == {kv[i][1] : i \in DOMAIN kv}
        order == SelectSeq(KeyOrder, LAMBDA k : k \in keys)
        at(k) == CHOOSE i \in DOMAIN kv : kv[i][1] = k /\ \A j \in DOMAIN kv : kv[j][1] = k => j <= i
    IN  [n \in DOMAIN order |-> kv[at(order[n])]]

\* a JSON string literal (the model's strings hold no character that is escaped)
Quote(s) == "\"" \o s \o "\""

RECURSIVE json_dumps(_)
json_dumps(v) ==
    CASE v.t = "s" -> Quote(v.s)
      [] v.t = "p" -> Quote(JoinWith(v.p, "."))
      [] v.t = "n" -> ToString(v.n)
      [] v.t = "a" ->
            "[" \o JoinWith([i \in DOMAIN v.items |-> json_dumps(v.items[i])], ",") \o "]"
      [] v.t = "o" ->
            LET items == SortedItems(v.kv)
            IN  "{" \o JoinWith([i \in DOMAIN items |->
                                    Quote(items[i][1]) \o ":" \o json_dumps(items[i][2])], ",")
                \o "}"

\* hashlib.sha256(text.encode("utf-8")).hexdigest(): a digest is modelled as the
\* term sha256(text), so two digests are equal exactly when the texts are.
sha256_hexdigest(text) == "sha256(" \o text \o ")"

\* ------------------------------------------------------------------------
\* The pipeline service behind the boto3 client (sm)
\* ------------------------------------------------------------------------

\* failures of a call other than "not found" or a name conflict
OtherFailures == {"ThrottlingException", "AccessDeniedException"}

\* what happens to one call: "none" - the service answers from its state;
\* a failure - the call fails with it and changes nothing; "Killed" - the
\* call acts on the service and the invocation is terminated inside it (the
\* handler blocks only in these calls, so that is where a timeout ends it)
Fates == {"none", "Killed"} \cup OtherFailures

Absent == [exists |-> FALSE, RoleArn |-> "", PipelineDefinition |-> ""]

Present(role_arn, definition_body) ==
    [exists |-> TRUE, RoleArn |-> role_arn, PipelineDefinition |-> definition_body]

\* one call made: st is [svc, calls, exc]; answer is what the service would
\* say, after the new service state
Called(st, op, name, role_arn, definition_body, fate, answer, after) ==
    LET failed == fate \in OtherFailures
        outcome == IF fate = "none" THEN answer ELSE fate
        applied == ~failed /\ answer = "ok" /\ op # "describe"
    IN  [svc |-> IF failed \/ answer # "ok" THEN st.svc ELSE after,
         calls |-> Append(st.calls,
                          [op |-> op, PipelineName |-> name, RoleArn |-> role_arn,
                           PipelineDefinition |-> definition_body,
                           outcome |-> outcome, applied |-> applied]),
         exc |-> IF outcome = "ok" THEN "none" ELSE outcome]

describe_pipeline(st, name, fate) ==
    Called(st, "describe", name, "", "", fate,
           IF st.svc[name].exists THEN "ok" ELSE "ResourceNotFound", st.svc)

update_pipeline(st, name, role_arn, definition_body, fate) ==
    Called(st, "update", name, role_arn, definition_body, fate,
           IF st.svc[name].exists THEN "ok" ELSE "ResourceNotFound",
           [st.svc EXCEPT ![name] = Present(role_arn, definition_body)])

create_pipeline(st, name, role_arn, definition_body, fate) ==
    Called(st, "create", name, role_arn, definition_body, fate,
           IF st.svc[name].exists THEN "ConflictException" ELSE "ok",
           [st.svc EXCEPT ![name] = Present(role_arn, definition_body)])

delete_pipeline(st, name, fate) ==
    Called(st, "delete", name, "", "", fate,
           IF st.svc[name].exists THEN "ok" ELSE "ResourceNotFound",
           [st.svc EXCEPT ![name] = Absent])

\* ------------------------------------------------------------------------
\* The handler
\* ------------------------------------------------------------------------

_response(physical_id, data) ==
    [kind |-> "response", PhysicalResourceId |-> physical_id, Data |-> data]

\* mutant: every failure of the describe call is read as "not found"
_pipeline_exists_any_error(st, name, fate) ==
    LET d == describe_pipeline(st, name, fate)
    IN  IF d.exc = "none" THEN d @@ [ret |-> TRUE]
        ELSE IF d.exc # "Killed" THEN [d EXCEPT !.exc = "none"] @@ [ret |-> FALSE]
        ELSE d @@ [ret |-> FALSE]

\* returns the run state with ret, the boolean returned, when exc = "none"
_pipeline_exists(st, name, fate) ==
    LET d == describe_pipeline(st, name, fate)
    IN  IF d.exc = "none" THEN d @@ [ret |-> TRUE]
        ELSE IF d.exc = "ResourceNotFound" THEN [d EXCEPT !.exc = "none"] @@ [ret |-> FALSE]
        ELSE d @@ [ret |-> FALSE]

\* mutant: the branches are exchanged
_create_or_update_swapped(st, name, role_arn, definition_body, fate1, fate2) ==
    LET p == _pipeline_exists(st, name, fate1)
        q == [svc |-> p.svc, calls |-> p.calls, exc |-> p.exc]
    IN  IF p.exc # "none" THEN q
        ELSE IF p.ret THEN create_pipeline(q, name, role_arn, definition_body, fate2)
        ELSE update_pipeline(q, name, role_arn, definition_body, fate2)

\* mutant: "always create", without the probe
_create_or_update_always_create(st, name, role_arn, definition_body, fate1, fate2) ==
    create_pipeline(st, name, role_arn, definition_body, fate1)

_create_or_update(st, name, role_arn, definition_body, fate1, fate2) ==
    LET p == _pipeline_exists(st, name, fate1)
        q == [svc |-> p.svc, calls |-> p.calls, exc |-> p.exc]
    IN  IF p.exc # "none" THEN q
        ELSE IF p.ret THEN update_pipeline(q, name, role_arn, definition_body, fate2)
        ELSE create_pipeline(q, name, role_arn, definition_body, fate2)

\* mutant: "not found" is raised like any other failure
_delete_raising(st, name, fate) ==
    delete_pipeline(st, name, fate)

\* mutant: best-effort delete, every failure swallowed
_delete_swallow_all(st, name, fate) ==
    LET d == delete_pipeline(st, name, fate)
    IN  IF d.exc # "Killed" THEN [d EXCEPT !.exc = "none"] ELSE d

\* mutant: a failed delete call is tried once more
_delete_retrying(st, name, fate) ==
    LET d == delete_pipeline(st, name, fate)
        e == IF d.exc \in OtherFailures THEN delete_pipeline(d, name, "none") ELSE d
    IN  IF e.exc = "ResourceNotFound" THEN [e EXCEPT !.exc = "none"] ELSE e

_delete(st, name, fate) ==
    LET d == delete_pipeline(st, name, fate)
    IN  IF d.exc = "ResourceNotFound" THEN [d EXCEPT !.exc = "none"] ELSE d

\* props.get(key, default)
PropsGet(props, key, default) ==
    IF key \in DOMAIN props THEN props[key] ELSE default

\* the cfg dict on_event builds from the request's properties
cfg_of(props) ==
    [pipelineName |-> props["PipelineName"],
     pipelineRoleArn |-> props["PipelineRoleArn"],
     jobRoleArn |-> props["JobRoleArn"],
     bucketName |-> props["BucketName"],
     rawPrefix |-> PropsGet(props, "RawPrefix", <<"r", "a", "w", "/">>),
     processedPrefix |-> PropsGet(props, "ProcessedPrefix",
                                  <<"p", "r", "o", "c", "e", "s", "s", "e", "d", "/">>),
     modelPrefix |-> PropsGet(props, "ModelPrefix", <<"m", "o", "d", "e", "l", "s", "/">>),
     codePrefix |-> PropsGet(props, "CodePrefix", <<"c", "o", "d", "e", "/">>),
     processingImageUri |-> props["ProcessingImageUri"],
     trainingImageUri |-> props["TrainingImageUri"],
     inferenceImageUri |-> props["InferenceImageUri"],
     instanceType |-> PropsGet(props, "InstanceType", "ml.m5.large"),
     endpointName |-> props["EndpointName"],
     generatorVersion |-> PropsGet(props, "GeneratorVersion", "v1")]


\* ------------------------------------------------------------------------
\* Requests
\* ------------------------------------------------------------------------

Names == {"demo", "prod"}

RequestTypes == {"Create", "Update", "Delete", "Replace"}

Slashes(k) == [i \in 1..k |-> "/"]

RawPrefixes ==
    {<<"r", "a", "w">> \o Slashes(k) : k \in 0..MaxSlashes} \cup {<<"i", "n", "/">>}

RequiredProps(name) ==
    [PipelineName |-> name,
     PipelineRoleArn |-> "arn:role/pipeline",
     JobRoleArn |-> "arn:role/job",
     BucketName |-> "b",
     ProcessingImageUri |-> "img-p",
     TrainingImageUri |-> "img-t",
     InferenceImageUri |-> "img-i",
     EndpointName |-> name \o "-ep"]

PropsSpace ==
    {RequiredProps(n) : n \in Names}
    \cup {RequiredProps(n) @@ ("RawPrefix" :> r) : n \in Names, r \in RawPrefixes}

\* the framework sends no physical id with Create and the one it holds for
\* the resource with every later request
PriorIds(req_type) == IF req_type = "Create" THEN {""} ELSE {"legacy-id"}

Events ==
    UNION {[RequestType : {t}, ResourceProperties : PropsSpace,
            PhysicalResourceId : PriorIds(t)] : t \in RequestTypes}

\* the configuration records the requests of the model give rise to
ConfigRecords == {cfg_of(props) : props \in PropsSpace}

\* definition_obj and definition_str of on_event, tabulated per configuration
\* record (the handler recomputes them on every invocation; they are pure)
SerializedTable == [cfg \in ConfigRecords |-> json_dumps(_build_definition(cfg))]

Serialized(cfg) == SerializedTable[cfg]

\* mutant: the physical id of the request is kept when there is one
physical_id_prior(event) ==
    IF event.PhysicalResourceId # "" THEN event.PhysicalResourceId
    ELSE "sagemaker-pipeline-" \o event.ResourceProperties["PipelineName"]

physical_id(event) ==
    "sagemaker-pipeline-" \o event.ResourceProperties["PipelineName"]

\* one invocation of the handler against the service state svc; fate1 and
\* fate2 are the fates of its first and second call.  Returns the service
\* state afterwards, the calls made, the serialized definition and the
\* result: a response, the error raised, or nothing (terminated).
on_event(event, svc, fate1, fate2) ==
    LET req_type == event.RequestType
        props == event.ResourceProperties
        name == props["PipelineName"]
        role_arn == props["PipelineRoleArn"]
        cfg == cfg_of(props)
        definition_str == Serialized(cfg)
        definition_hash == sha256_hexdigest(definition_str)
        st0 == [svc |-> svc, calls |-> <<>>, exc |-> "none"]
        run == IF req_type \in {"Create", "Update"}
               THEN _create_or_update(st0, name, role_arn, definition_str, fate1, fate2)
               ELSE IF req_type = "Delete" THEN _delete(st0, name, fate1)
               ELSE st0
        data == IF req_type \in {"Create", "Update"}
                THEN [PipelineName |-> name, DefinitionHash |-> definition_hash]
                ELSE [PipelineName |-> name]
    IN  [svc |-> run.svc,
         calls |-> run.calls,
         definition_str |-> definition_str,
         result |-> IF run.exc = "Killed" THEN [kind |-> "terminated"]
                    ELSE IF run.exc # "none" THEN [kind |-> "error", error |-> run.exc]
                    ELSE _response(physical_id(event), data)]

\* ------------------------------------------------------------------------
\* State machine: the provisioning framework delivers one request at a time
\* ------------------------------------------------------------------------

\* a mutating call of the invocation acted on the service
Applied(cs) == \E i \in DOMAIN cs : cs[i].applied

NoRequest == [RequestType |-> "", ResourceProperties |-> <<>>, PhysicalResourceId |-> ""]

Init ==
    /\ pipelines = [n \in Names |-> Absent]
    /\ before = pipelines
    /\ request = NoRequest
    /\ calls = <<>>
    /\ definition_text = ""
    /\ result = [kind |-> "none"]
    /\ redelivered = FALSE

Invoke(ev, fate1, fate2) ==
    LET r == on_event(ev, pipelines, fate1, fate2)
    IN  /\ pipelines' = r.svc
        /\ before' = pipelines
        /\ request' = ev
        /\ calls' = r.calls
        /\ definition_text' = r.definition_str
        /\ result' = r.result
        /\ redelivered' = (ev = request /\ ev.RequestType \in {"Create", "Update"}
                                      /\ Applied(calls))

\* the fates a second call can meet: the handler makes one only on a
\* Create or Update whose first call came back
SecondFates(ev, fate1) ==
    IF ev.RequestType \in {"Create", "Update"} /\ fate1 = "none" THEN Fates ELSE {"none"}

Next ==
    \E ev \in Events, fate1 \in Fates :
        \E fate2 \in SecondFates(ev, fate1) : Invoke(ev, fate1, fate2)

Spec == Init /\ [][Next]_vars

\* ------------------------------------------------------------------------
\* Properties
\* ------------------------------------------------------------------------

Handled == request # NoRequest

IsCreateOrUpdate == request.RequestType \in {"Create", "Update"}

IsDelete == request.RequestType = "Delete"

ReqName == request.ResourceProperties["PipelineName"]

ReqRole == request.ResourceProperties["PipelineRoleArn"]

ReqDefinition == Serialized(cfg_of(request.ResourceProperties))

CallsOf(op) == {i \in DOMAIN calls : calls[i].op = op}

Carries(c) ==
    /\ c.PipelineName = ReqName
    /\ c.RoleArn = ReqRole
    /\ c.PipelineDefinition = ReqDefinition

\* the probe of the last invocation came back with this answer
Probed(answer) ==
    /\ calls # <<>>
    /\ calls[1].op = "describe"
    /\ calls[1].outcome = answer

\* exactly the call op was issued after the probe, with the request's arguments
Issued(op, other) ==
    /\ Len(calls) = 2
    /\ calls[2].op = op
    /\ CallsOf(other) = {}
    /\ Carries(calls[2])

\* C1 as stated: on Create/Update the probe result chooses the mutating call
\* (Exists: exactly update, never create; NotExists: exactly create, never
\* update), the call carries name, role and serialized definition, and the
\* pipeline is in state Exists afterwards.
C1_Original ==
    (Handled /\ IsCreateOrUpdate) =>
        /\ Probed("ok") => (Issued("update", "create") /\ pipelines[ReqName].exists)
        /\ Probed("ResourceNotFound") =>
               (Issued("create", "update") /\ pipelines[ReqName].exists)

\* C1 amended: the same choice of call and the same arguments; the pipeline
\* is in state Exists afterwards when the probe reported Exists or the
\* create call succeeded (a create call that fails leaves it NotExists).
C1_BranchByProbe ==
    (Handled /\ IsCreateOrUpdate) =>
        /\ Probed("ok") => (Issued("update", "create") /\ pipelines[ReqName].exists)
        /\ Probed("ResourceNotFound") =>
               /\ Issued("create", "update")
               /\ calls[2].applied => pipelines[ReqName] = Present(ReqRole, ReqDefinition)
               /\ calls[2].outcome \in OtherFailures => ~pipelines[ReqName].exists

C1_Witness ==
    /\ Handled /\ IsCreateOrUpdate
    /\ Probed("ok")
    /\ Issued("update", "create")
    /\ calls[2].outcome = "ok"
    /\ before[ReqName].PipelineDefinition # ReqDefinition

\* C3 as stated: Delete on a pipeline in state NotExists makes no create,
\* update or delete call, succeeds with a normal response and leaves the
\* state NotExists.
C3_Original ==
    (Handled /\ IsDelete /\ ~before[ReqName].exists) =>
        /\ calls = <<>>
        /\ result.kind = "response"
        /\ ~pipelines[ReqName].exists

\* C3 amended: Delete on a pipeline in state NotExists issues exactly one
\* delete call and no create or update call; the call changes nothing and the
\* state stays NotExists; when the call signals "not found" the request
\* succeeds with a normal response.
C3_DeleteAbsent ==
    (Handled /\ IsDelete /\ ~before[ReqName].exists) =>
        /\ Len(calls) = 1
        /\ calls[1].op = "delete"
        /\ calls[1].PipelineName = ReqName
        /\ ~calls[1].applied
        /\ pipelines = before
        /\ calls[1].outcome = "ResourceNotFound" =>
               (result.kind = "response" /\ result.Data = [PipelineName |-> ReqName])

C3_Witness ==
    /\ Handled /\ IsDelete
    /\ ~before[ReqName].exists
    /\ calls # <<>>
    /\ calls[1].outcome = "ResourceNotFound"
    /\ result.kind = "response"

\* C4: every response carries the PhysicalResourceId "sagemaker-pipeline-"
\* followed by the pipeline name, whatever the request type, the prior
\* physical id in the request and the other configuration fields.
C4_StableIdentity ==
    (Handled /\ result.kind = "response") =>
        result.PhysicalResourceId = "sagemaker-pipeline-" \o ReqName

C4_Witness ==
    /\ Handled /\ IsDelete
    /\ result.kind = "response"
    /\ request.PhysicalResourceId = "legacy-id"
    /\ "RawPrefix" \in DOMAIN request.ResourceProperties
    /\ request.ResourceProperties["RawPrefix"] = <<"i", "n", "/">>
    /\ before[ReqName].exists

\* C5 as stated: one invocation performs at most one service call, counting
\* probe, create, update and delete alike.
C5_Original == Len(calls) <= 1

\* a call after which the handler goes on to another one
ComesBack(c) ==
    c.op = "describe" /\ c.outcome \in {"ok", "ResourceNotFound"}

\* C5 amended: one invocation performs at most one call of each kind: on
\* Create/Update at most one probe followed by at most one create or update,
\* on Delete at most one delete, otherwise none; and no call is made after a
\* call failed (a probe answering "not found" is followed by create only).
C5_NoRetry ==
    /\ \A op \in {"describe", "create", "update", "delete"} : Cardinality(CallsOf(op)) <= 1
    /\ \A i \in DOMAIN calls : i < Len(calls) => ComesBack(calls[i])
    /\ (Handled /\ IsCreateOrUpdate) =>
           /\ Len(calls) \in {1, 2}
           /\ calls[1].op = "describe"
           /\ Len(calls) = 2 => calls[2].op \in {"create", "update"}
    /\ (Handled /\ IsDelete) => (Len(calls) = 1 /\ calls[1].op = "delete")
    /\ (~Handled \/ request.RequestType \notin {"Create", "Update", "Delete"}) => calls = <<>>

C5_Witness ==
    /\ Handled /\ IsCreateOrUpdate
    /\ Len(calls) = 2
    /\ calls[2].outcome \in OtherFailures

\* C6: a Create/Update re-delivered after a delivery of the same request whose
\* mutating call took effect (completed or terminated afterwards) does not
\* fail on the pipeline existing already, ends with the pipeline Exists
\* holding the request's definition, and returns the PhysicalResourceId and
\* DefinitionHash of the first delivery.
C6_RedeliverySafe ==
    [][(Handled /\ request' = request /\ IsCreateOrUpdate /\ Applied(calls)) =>
          /\ \A i \in DOMAIN calls' : calls'[i].outcome # "ConflictException"
          /\ CallsOf("create")' = {}
          /\ pipelines'[ReqName] = Present(ReqRole, ReqDefinition)
          /\ result'.kind = "response" =>
                /\ result'.Data.DefinitionHash
                       = sha256_hexdigest(pipelines[ReqName].PipelineDefinition)
                /\ result.kind = "response" => result' = result
      ]_vars

C6_Witness ==
    /\ redelivered
    /\ result.kind = "response"
    /\ Len(calls) = 2
    /\ calls[2].op = "update"

\* C7: on Delete, a "not found" failure of the delete call is swallowed and
\* the request succeeds with a response holding the pipeline name; any other
\* failure of the delete call is raised and no response is returned.
C7_DeleteErrors ==
    (Handled /\ IsDelete /\ calls # <<>>) =>
        /\ calls[1].outcome = "ResourceNotFound" =>
               /\ result.kind = "response"
               /\ result.Data.PipelineName = ReqName
        /\ calls[1].outcome \in OtherFailures =>
               /\ result.kind = "error"
               /\ result.error = calls[1].outcome

C7_Witness ==
    /\ Handled /\ IsDelete
    /\ calls # <<>>
    /\ calls[1].outcome \in OtherFailures
    /\ result.kind = "error"
    /\ before[ReqName].exists

\* C8: the probe is false only on "not found" and true on success; any other
\* failure of the describe call is raised, never read as "not found", so no
\* create or update follows a failed probe.
C8_ProbeErrors ==
    \A i \in DOMAIN calls : calls[i].op = "describe" =>
        /\ CallsOf("create") # {} => calls[i].outcome = "ResourceNotFound"
        /\ CallsOf("update") # {} => calls[i].outcome = "ok"
        /\ calls[i].outcome \in {"ok", "ResourceNotFound"} => Len(calls) > i
        /\ calls[i].outcome \in OtherFailures =>
               /\ CallsOf("create") \cup CallsOf("update") = {}
               /\ result.kind = "error"
               /\ result.error = calls[i].outcome
               /\ pipelines = before

C8_Witness ==
    /\ Handled /\ IsCreateOrUpdate
    /\ calls # <<>>
    /\ calls[1].op = "describe"
    /\ calls[1].outcome = "AccessDeniedException"
    /\ ~before[ReqName].exists

Field(obj, key) ==
    LET i == CHOOSE j \in DOMAIN obj.kv : obj.kv[j][1] = key
    IN  obj.kv[i][2]

RECURSIVE Refs(_)
\* the paths of the {"Get": path} references inside a JSON value
Refs(v) ==
    CASE v.t = "p" -> {v.p}
      [] v.t = "o" -> UNION {Refs(v.kv[i][2]) : i \in DOMAIN v.kv}
      [] v.t = "a" -> UNION {Refs(v.items[i]) : i \in DOMAIN v.items}
      [] OTHER -> {}

ReferenceIntegrity(definition) ==
    LET steps == Field(definition, "Steps").items
        params == Field(definition, "Parameters").items
    IN  \A i \in DOMAIN steps : \A path \in Refs(steps[i]) :
            \/ /\ path[1] = "Steps"
               /\ \E j \in 1..(i - 1) : Field(steps[j], "Name").s = path[2]
            \/ /\ path[1] = "Parameters"
               /\ Len(path) = 2
               /\ \E k \in DOMAIN params : Field(params[k], "Name").s = path[2]

BuiltDefinition == _build_definition(cfg_of(request.ResourceProperties))

\* C10: in the graph built for the request's configuration record, every
\* Steps.X reference names a step strictly earlier in Steps than the step
\* holding it, and every Parameters.Y reference names a declared parameter.
C10_ReferenceIntegrity == Handled => ReferenceIntegrity(BuiltDefinition)

C10_Witness ==
    /\ Handled
    /\ definition_text = json_dumps(BuiltDefinition)
    /\ \E path \in Refs(Field(BuiltDefinition, "Steps")) : path[1] = "Steps"
    /\ \E path \in Refs(Field(BuiltDefinition, "Steps")) : path[1] = "Parameters"
    /\ "RawPrefix" \in DOMAIN request.ResourceProperties

====
